---------------------------- MODULE Spec2Model ----------------------------
(***************************************************************************)
(* A model of fast_fib_rs: the generic repeated-squaring engine `power`,   *)
(* its carriers (u64, Mat2x2, Z5), and the Fibonacci algorithms built on   *)
(* it or on the Cassini doubling recurrences.                              *)
(*                                                                         *)
(* One behaviour is one call: Init is the state before the call, a Call    *)
(* action binds the argument and runs the function up to its loop, a Step  *)
(* action is one loop iteration, and an Exit/Done action is the code after *)
(* the loop up to the return.                                              *)
(*                                                                         *)
(* Arbitrary-precision integers (rug::Integer) are the model checker's     *)
(* integers; the bounds below keep every value the code computes inside    *)
(* them.  The machine word u64 is modelled with U64Bits bits, except in    *)
(* Binet::fib, whose precision formula is carried out at the full width.   *)
(***************************************************************************)
EXTENDS Integers, Sequences, FiniteSets, TLC

VARIABLES
    overflow_checks, \* the build profile: TRUE = arithmetic overflow panics
    alg,             \* the entry point called, "none" before the call
    pc,              \* the position of the call
    n,               \* the u64 argument (exp of power, n of fib)
    base,            \* power's argument base
    bits,            \* the characters of `bits` the loop has yet to visit
    p,               \* power's local p
    prod,            \* power's local prod
    ret,             \* the value power returned to its caller
    i,               \* the doubling recurrences' local i
    f_i,             \* the doubling recurrences' local f_i
    f_iplus1,        \* Cassini's local f_iplus1
    f_im1,           \* CassiniGMP's local f_im1
    next_offset,     \* CassiniGMP's local next_offset
    result,          \* the value the entry point returned
    binet_n,         \* Binet::fib's argument n at its full width, as limbs
    prec,            \* Binet::fib's local prec, as limbs
    law,             \* three calls of power: on a + b, on a and on b
    results,         \* MemoizedRecursor's field results
    gmp_n,           \* GMP::fib's argument n at its full width, as limbs
    gmp_index        \* the u32 GMP::fib hands to Integer::fibonacci, as limbs

vars == <<overflow_checks, alg, pc, n, base, bits, p, prod, ret,
          i, f_i, f_iplus1, f_im1, next_offset, result, binet_n, prec,
          law, results, gmp_n, gmp_index>>

-----------------------------------------------------------------------------
(* Bounds of the model. *)

\* The width of the machine word u64 in the model.
U64Bits == 4

\* The largest base and exponent of a call of power on the u64 carrier.
MaxBase == 5

MaxExp == 9

\* The largest k for which Binet::fib is called with n = 2^k.
MaxBinetLog == 63

\* The largest index Integer::fibonacci is called with.
MaxGmpIndex == 20

\* The largest a and b of the calls power(x, a + b, id), power(x, a, id) and
\* power(x, b, id) that are compared.
MaxLawExp == 4

-----------------------------------------------------------------------------
(* The machine word. *)

RECURSIVE Pow2(_)
Pow2(k) == IF k = 0 THEN 1 ELSE 2 * Pow2(k - 1)

U64Max == Pow2(U64Bits) - 1

\* The arguments n the model calls fib with.
Inputs == 0 .. U64Max

\* The result of a u64 operation whose exact value is x, when it wraps.
WrapU64(x) == x % (U64Max + 1)

\* format!("{:b}", x): the binary digits of x, most significant first.
RECURSIVE FormatBinary(_)
FormatBinary(x) ==
    IF x < 2 THEN <<x>> ELSE Append(FormatBinary(x \div 2), x % 2)

\* chars().rev(): the characters last to first.
RECURSIVE Rev(_)
Rev(s) == IF s = <<>> THEN <<>> ELSE Append(Rev(Tail(s)), Head(s))

-----------------------------------------------------------------------------
(* The carriers of power and their MulAssign. *)

\* u64: self *= rhs, the exact product (the caller wraps or panics).
U64Product(self, rhs) == self * rhs

\* Mat2x2::identity()
Mat2x2Identity == [a |-> 1, b |-> 0, c |-> 0, d |-> 1]

\* A product that drops one term of the lower right entry.
Mat2x2MulDropTerm(self, rhs) ==
    [a |-> self.a * rhs.a + self.b * rhs.c,
     b |-> self.a * rhs.b + self.b * rhs.d,
     c |-> self.c * rhs.a + self.d * rhs.c,
     d |-> self.c * rhs.b]

\* impl Mul<Mat2x2> for Mat2x2
Mat2x2Mul(self, rhs) ==
    [a |-> self.a * rhs.a + self.b * rhs.c,
     b |-> self.a * rhs.b + self.b * rhs.d,
     c |-> self.c * rhs.a + self.d * rhs.c,
     d |-> self.c * rhs.b + self.d * rhs.d]

\* A matrix-vector product with its two rows exchanged.
Mat2x2MulVecSwapped(self, rhs) ==
    <<self.c * rhs[1] + self.d * rhs[2], self.a * rhs[1] + self.b * rhs[2]>>

\* impl Mul<(Integer, Integer)> for Mat2x2
Mat2x2MulVec(self, rhs) ==
    <<self.a * rhs[1] + self.b * rhs[2], self.c * rhs[1] + self.d * rhs[2]>>

\* Integer >>= 1: the arithmetic shift, rounding towards minus infinity.
Shr1(x) == x \div 2

\* A product that forgets that the square of the root is 5.
Z5MulAssignNo5(self, rhs) ==
    LET a  == self.a
        b  == self.b
        c  == rhs.a
        d  == rhs.b
        k1 == c * (a + b)
        k2 == b * (c - d)
        k3 == a * (d - c)
    IN  [a |-> Shr1(k1 - k2), b |-> Shr1(k1 + k3)]

\* A product that takes the square of the root for 4.
Z5UnshiftedFour(self, rhs) ==
    LET a  == self.a
        b  == self.b
        c  == rhs.a
        d  == rhs.b
        k1 == c * (a + b)
        k2 == b * (c - 4 * d)
        k3 == a * (d - c)
    IN  [a |-> k1 - k2, b |-> k1 + k3]

\* impl MulAssign for Z5, up to the two shifts: self.a = k1 - k2 and
\* self.b = k1 + k3.
Z5Unshifted(self, rhs) ==
    LET a  == self.a
        b  == self.b
        c  == rhs.a
        d  == rhs.b
        k1 == c * (a + b)
        k2 == b * (c - 5 * d)
        k3 == a * (d - c)
    IN  [a |-> k1 - k2, b |-> k1 + k3]

\* impl MulAssign for Z5
Z5MulAssign(self, rhs) ==
    LET unshifted == Z5Unshifted(self, rhs)
    IN  [a |-> Shr1(unshifted.a), b |-> Shr1(unshifted.b)]

\* Z5::new
Z5New(a, b) == [a |-> a, b |-> b]

\* An identity that forgets the halved representation: 1/2, not 1.
Z5OneUnhalved == Z5New(1, 0)

\* Z5::one
Z5One == Z5New(2, 0)

\* The carrier T of a call of power, by entry point.
Carrier(g) ==
    CASE g = "int"   -> "u64"
      [] g = "mat"   -> "Mat2x2"
      [] g = "z5"    -> "Z5"
      [] g = "z5pow" -> "Z5"

\* x *= y on carrier t, the value left in x when the operation completes.
MulAssign(t, x, y) ==
    CASE t = "u64"    -> WrapU64(U64Product(x, y))
      [] t = "Mat2x2" -> Mat2x2Mul(x, y)
      [] t = "Z5"     -> Z5MulAssign(x, y)

\* Whether x *= y overflows the carrier.
MulOverflows(t, x, y) == t = "u64" /\ U64Product(x, y) > U64Max

-----------------------------------------------------------------------------
(* Numbers wider than the model checker's integers: a natural number is the *)
(* sequence of its limbs, least significant first, with no leading zero     *)
(* limb (0 is the empty sequence).  Binet::fib computes its precision from  *)
(* the full-width u64 n through f64 and a 10-bit Float; these operators     *)
(* carry that arithmetic out exactly.                                       *)

LimbBits == 3 * 4

LimbBase == Pow2(LimbBits)

Max(x, y) == IF x >= y THEN x ELSE y

\* Limb k of a (1 is the least significant), 0 beyond either end.
Limb(a, k) == IF k >= 1 /\ k <= Len(a) THEN a[k] ELSE 0

RECURSIVE BigNorm(_)
BigNorm(a) ==
    IF a = <<>> THEN <<>>
    ELSE IF a[Len(a)] = 0 THEN BigNorm(SubSeq(a, 1, Len(a) - 1))
    ELSE SubSeq(a, 1, Len(a))

RECURSIVE BigFromNat(_)
BigFromNat(x) ==
    IF x = 0 THEN <<>> ELSE <<x % LimbBase>> \o BigFromNat(x \div LimbBase)

\* The limbs of the number whose columns (limb-weighted digits of any size)
\* are cols, with carry carried in.
RECURSIVE Propagate(_, _)
Propagate(cols, carry) ==
    IF cols = <<>> THEN BigFromNat(carry)
    ELSE LET v == Head(cols) + carry
         IN  <<v % LimbBase>> \o Propagate(Tail(cols), v \div LimbBase)

BigAdd(a, b) ==
    BigNorm(Propagate([k \in 1 .. Max(Len(a), Len(b)) |->
                          Limb(a, k) + Limb(b, k)], 0))

\* The sum of a[j] * b[k + 1 - j] for j in 1 .. upto.
RECURSIVE ColumnSum(_, _, _, _)
ColumnSum(a, b, k, upto) ==
    IF upto = 0 THEN 0
    ELSE Limb(a, upto) * Limb(b, k + 1 - upto) + ColumnSum(a, b, k, upto - 1)

BigMul(a, b) ==
    IF a = <<>> \/ b = <<>> THEN <<>>
    ELSE BigNorm(Propagate([k \in 1 .. Len(a) + Len(b) - 1 |->
                               ColumnSum(a, b, k, Len(a))], 0))

\* a * 2^k
BigShl(a, k) ==
    LET q == k \div LimbBits
        s == k % LimbBits
    IN  BigNorm([j \in 1 .. Len(a) + q + 1 |->
                    (Limb(a, j - q) % Pow2(LimbBits - s)) * Pow2(s)
                    + Limb(a, j - q - 1) \div Pow2(LimbBits - s)])

\* a \div 2^k
BigShr(a, k) ==
    LET q == k \div LimbBits
        s == k % LimbBits
    IN  BigNorm([j \in 1 .. Max(Len(a) - q, 0) |->
                    Limb(a, j + q) \div Pow2(s)
                    + (Limb(a, j + q + 1) % Pow2(s)) * Pow2(LimbBits - s)])

\* Whether a is a multiple of 2^k.
BigLowBitsZero(a, k) == BigShl(BigShr(a, k), k) = a

\* Bit k of a (0 is the least significant).
BigBit(a, k) == (Limb(a, k \div LimbBits + 1) \div Pow2(k % LimbBits)) % 2

RECURSIVE BitLen(_)
BitLen(x) == IF x = 0 THEN 0 ELSE 1 + BitLen(x \div 2)

\* The number of binary digits of a, 0 for 0.
BigBitLen(a) ==
    IF a = <<>> THEN 0 ELSE LimbBits * (Len(a) - 1) + BitLen(a[Len(a)])

\* a < b
BigLess(a, b) ==
    \/ Len(a) < Len(b)
    \/ /\ Len(a) = Len(b)
       /\ \E k \in 1 .. Len(a) :
             /\ a[k] < b[k]
             /\ \A j \in k + 1 .. Len(a) : a[j] = b[j]

\* The value of a, for an a the model checker's integers hold.
RECURSIVE BigToNat(_)
BigToNat(a) ==
    IF a = <<>> THEN 0 ELSE Head(a) + LimbBase * BigToNat(Tail(a))

\* A binary floating-point number m * 2^e (f64, or a Float of some precision).
\* m * 2^e rounded to nearest, ties to even, at a precision of bitsOut bits.
RoundNearestEven(m, e, bitsOut) ==
    LET len == BigBitLen(m)
        d   == len - bitsOut
    IN  IF d <= 0 THEN [m |-> m, e |-> e]
        ELSE LET q      == BigShr(m, d)
                 half   == BigBit(m, d - 1) = 1
                 sticky == ~BigLowBitsZero(m, d - 1)
                 up     == half /\ (sticky \/ BigBit(q, 0) = 1)
             IN  [m |-> IF up THEN BigAdd(q, BigFromNat(1)) ELSE q,
                  e |-> e + d]

-----------------------------------------------------------------------------
(* The state before the call. *)

Init ==
    /\ overflow_checks \in BOOLEAN
    /\ alg = "none"
    /\ pc = "idle"
    /\ n = 0
    /\ base = 0
    /\ bits = <<>>
    /\ p = 0
    /\ prod = 0
    /\ ret = 0
    /\ i = 0
    /\ f_i = 0
    /\ f_iplus1 = 0
    /\ f_im1 = 0
    /\ next_offset = 0
    /\ result = 0
    /\ binet_n = <<>>
    /\ prec = <<>>
    /\ law = <<>>
    /\ results = <<>>
    /\ gmp_n = <<>>
    /\ gmp_index = <<>>

cassiniLocals == <<i, f_i, f_iplus1, f_im1, next_offset>>

binetLocals == <<binet_n, prec>>

gmpLocals == <<gmp_n, gmp_index>>

otherLocals == <<law, results, gmpLocals>>

powerLocals == <<base, bits, p, prod, ret>>

-----------------------------------------------------------------------------
(* repeated_squaring.rs: power *)

\* The characters of the exponent in the order they are written, first to
\* last.
PowerBitsForward(exp) == FormatBinary(exp)

\* The characters the loop of power visits, in the order it visits them.
PowerBits(exp) == Rev(FormatBinary(exp))

\* power(b, e, ident) from its entry to its loop, or to its early return.
PowerEntry(b, e, ident) ==
    /\ n' = e
    /\ base' = b
    /\ IF e = 0
       THEN /\ pc' = "power_ret"
            /\ ret' = ident
            /\ UNCHANGED <<bits, p, prod>>
       ELSE /\ pc' = "power_loop"
            /\ bits' = PowerBits(e)
            /\ p' = b
            /\ prod' = ident
            /\ UNCHANGED ret

\* One iteration of the loop of power.
PowerStep ==
    /\ pc = "power_loop"
    /\ bits # <<>>
    /\ LET t == Carrier(alg)
           b == Head(bits)
           folded == IF b = 1 THEN MulAssign(t, prod, p) ELSE prod
       IN  IF overflow_checks
              /\ (\/ b = 1 /\ MulOverflows(t, prod, p)
                  \/ MulOverflows(t, p, p))
           THEN /\ pc' = "panic"
                /\ UNCHANGED <<bits, p, prod>>
           ELSE /\ prod' = folded
                /\ p' = MulAssign(t, p, p)
                /\ bits' = Tail(bits)
                /\ pc' = pc
    /\ UNCHANGED <<binetLocals, otherLocals>>
    /\ UNCHANGED <<overflow_checks, alg, n, base, ret, cassiniLocals, result>>

\* The loop of power is over: return prod.
PowerReturn ==
    /\ pc = "power_loop"
    /\ bits = <<>>
    /\ ret' = prod
    /\ pc' = "power_ret"
    /\ UNCHANGED <<binetLocals, otherLocals>>
    /\ UNCHANGED <<overflow_checks, alg, n, base, bits, p, prod, cassiniLocals,
                   result>>

\* A call of power on the u64 carrier with ident = 1, as test_int_pow makes it.
IntPowCall(b, e) ==
    /\ pc = "idle"
    /\ alg' = "int"
    /\ PowerEntry(b, e, 1)
    /\ UNCHANGED <<binetLocals, otherLocals>>
    /\ UNCHANGED <<overflow_checks, cassiniLocals, result>>

\* The caller receives the power.
IntPowDone ==
    /\ pc = "power_ret"
    /\ alg = "int"
    /\ result' = ret
    /\ pc' = "done"
    /\ UNCHANGED <<binetLocals, otherLocals>>
    /\ UNCHANGED <<overflow_checks, alg, n, powerLocals, cassiniLocals>>

-----------------------------------------------------------------------------
(* mat_exponentiator.rs: MatExponentiator::fib *)

fib_mat == [a |-> 1, b |-> 1, c |-> 1, d |-> 0]

MatFibCall(m) ==
    /\ pc = "idle"
    /\ alg' = "mat"
    /\ PowerEntry(fib_mat, m, Mat2x2Identity)
    /\ UNCHANGED <<binetLocals, otherLocals>>
    /\ UNCHANGED <<overflow_checks, cassiniLocals, result>>

\* let (fib_curr, _fib_prev) = power(..) * (0, 1); fib_curr
MatFibDone ==
    /\ pc = "power_ret"
    /\ alg = "mat"
    /\ result' = Mat2x2MulVec(ret, <<0, 1>>)[1]
    /\ pc' = "done"
    /\ UNCHANGED <<binetLocals, otherLocals>>
    /\ UNCHANGED <<overflow_checks, alg, n, powerLocals, cassiniLocals>>

-----------------------------------------------------------------------------
(* binet_z5.rs: BinetZ5::fib *)

Z5FibCall(m) ==
    /\ pc = "idle"
    /\ alg' = "z5"
    /\ IF m \in {0, 1}
       THEN /\ result' = m
            /\ pc' = "done"
            /\ n' = m
            /\ UNCHANGED powerLocals
       ELSE /\ PowerEntry(Z5New(1, 1), m, Z5One)
            /\ UNCHANGED result
    /\ UNCHANGED <<binetLocals, otherLocals>>
    /\ UNCHANGED <<overflow_checks, cassiniLocals>>

\* ans.b
Z5FibDone ==
    /\ pc = "power_ret"
    /\ alg = "z5"
    /\ result' = ret.b
    /\ pc' = "done"
    /\ UNCHANGED <<binetLocals, otherLocals>>
    /\ UNCHANGED <<overflow_checks, alg, n, powerLocals, cassiniLocals>>

\* power(Z5::new(1, 1), m, Z5::one()), the call of BinetZ5::fib, on its own.
Z5PowCall(m) ==
    /\ pc = "idle"
    /\ alg' = "z5pow"
    /\ PowerEntry(Z5New(1, 1), m, Z5One)
    /\ UNCHANGED <<binetLocals, otherLocals>>
    /\ UNCHANGED <<overflow_checks, cassiniLocals, result>>

Z5PowDone ==
    /\ pc = "power_ret"
    /\ alg = "z5pow"
    /\ result' = ret
    /\ pc' = "done"
    /\ UNCHANGED <<binetLocals, otherLocals>>
    /\ UNCHANGED <<overflow_checks, alg, n, powerLocals, cassiniLocals>>

-----------------------------------------------------------------------------
(* cassini.rs and cassini_gmp.rs: the doubling recurrences *)

\* bits.chars().skip(1)
WalkBits(m) == Tail(FormatBinary(m))

\* An index that doubles and never takes the character in.
NextIndexNoBit(k, b) == 2 * k

\* i = 2 * i (b = 0) or i = 2 * i + 1 (b = 1), the exact value.
NextIndex(k, b) == 2 * k + b

CassiniCall(m) ==
    /\ pc = "idle"
    /\ alg' = "cassini"
    /\ n' = m
    /\ IF m < 2
       THEN /\ result' = m
            /\ pc' = "done"
            /\ UNCHANGED <<bits, i, f_i, f_iplus1>>
       ELSE /\ bits' = WalkBits(m)
            /\ i' = 1
            /\ f_i' = 1
            /\ f_iplus1' = 1
            /\ pc' = "cassini_loop"
            /\ UNCHANGED result
    /\ UNCHANGED <<binetLocals, otherLocals>>
    /\ UNCHANGED <<overflow_checks, base, p, prod, ret, f_im1, next_offset>>

\* An iteration that takes the branch of an odd index on every character.
CassiniUpdateOddBranch(fi, fi1, b) ==
    LET f_i_sqr           == fi * fi
        f_i_iplus1        == fi * fi1
        f_iplus1_sqr      == fi1 * fi1
        f_2iplus1         == f_i_sqr + f_iplus1_sqr
        double_f_i_iplus1 == f_i_iplus1 * 2
    IN  <<f_2iplus1, double_f_i_iplus1 + f_iplus1_sqr>>

\* The pair (f_i, f_iplus1) after one iteration on character b.
CassiniUpdate(fi, fi1, b) ==
    LET f_i_sqr           == fi * fi
        f_i_iplus1        == fi * fi1
        f_iplus1_sqr      == fi1 * fi1
        f_2iplus1         == f_i_sqr + f_iplus1_sqr
        double_f_i_iplus1 == f_i_iplus1 * 2
    IN  IF b = 0
        THEN <<double_f_i_iplus1 - f_i_sqr, f_2iplus1>>
        ELSE <<f_2iplus1, double_f_i_iplus1 + f_iplus1_sqr>>

CassiniStep ==
    /\ pc = "cassini_loop"
    /\ bits # <<>>
    /\ LET b   == Head(bits)
           upd == CassiniUpdate(f_i, f_iplus1, b)
       IN  IF overflow_checks /\ NextIndex(i, b) > U64Max
           THEN /\ pc' = "panic"
                /\ UNCHANGED <<bits, i, f_i, f_iplus1>>
           ELSE /\ i' = WrapU64(NextIndex(i, b))
                /\ f_i' = upd[1]
                /\ f_iplus1' = upd[2]
                /\ bits' = Tail(bits)
                /\ pc' = pc
    /\ UNCHANGED <<binetLocals, otherLocals>>
    /\ UNCHANGED <<overflow_checks, alg, n, base, p, prod, ret, f_im1,
                   next_offset, result>>

\* assert!(i == n); f_i
CassiniExit ==
    /\ pc = "cassini_loop"
    /\ bits = <<>>
    /\ IF i = n
       THEN /\ result' = f_i
            /\ pc' = "done"
       ELSE /\ pc' = "panic"
            /\ UNCHANGED result
    /\ UNCHANGED <<binetLocals, otherLocals>>
    /\ UNCHANGED <<overflow_checks, alg, n, powerLocals, cassiniLocals>>

CassiniGMPCall(m) ==
    /\ pc = "idle"
    /\ alg' = "gmp"
    /\ n' = m
    /\ IF m < 2
       THEN /\ result' = m
            /\ pc' = "done"
            /\ UNCHANGED <<bits, i, f_i, f_im1, next_offset>>
       ELSE /\ bits' = WalkBits(m)
            /\ i' = 1
            /\ f_i' = 1
            /\ f_im1' = 0
            /\ next_offset' = -2
            /\ pc' = "gmp_loop"
            /\ UNCHANGED result
    /\ UNCHANGED <<binetLocals, otherLocals>>
    /\ UNCHANGED <<overflow_checks, base, p, prod, ret, f_iplus1>>

\* An iteration that leaves next_offset as it found it.
CassiniGMPUpdateKeepOffset(fi, fim1, off, b) ==
    LET f_i_sqr   == fi * fi
        f_im1_sqr == fim1 * fim1
        f_2im1    == f_i_sqr + f_im1_sqr
        f_2ip1    == (f_i_sqr * 4) - f_im1_sqr + off
        f_2i      == f_2ip1 - f_2im1
    IN  IF b = 0
        THEN <<f_2i, f_2im1, off>>
        ELSE <<f_2ip1, f_2i, off>>

\* An iteration that negates next_offset whatever the character.
CassiniGMPUpdateFlip(fi, fim1, off, b) ==
    LET f_i_sqr   == fi * fi
        f_im1_sqr == fim1 * fim1
        f_2im1    == f_i_sqr + f_im1_sqr
        f_2ip1    == (f_i_sqr * 4) - f_im1_sqr + off
        f_2i      == f_2ip1 - f_2im1
    IN  IF b = 0
        THEN <<f_2i, f_2im1, -off>>
        ELSE <<f_2ip1, f_2i, -off>>

\* The triple (f_i, f_im1, next_offset) after one iteration on character b.
CassiniGMPUpdate(fi, fim1, off, b) ==
    LET f_i_sqr   == fi * fi
        f_im1_sqr == fim1 * fim1
        f_2im1    == f_i_sqr + f_im1_sqr
        f_2ip1    == (f_i_sqr * 4) - f_im1_sqr + off
        f_2i      == f_2ip1 - f_2im1
    IN  IF b = 0
        THEN <<f_2i, f_2im1, 2>>
        ELSE <<f_2ip1, f_2i, -2>>

CassiniGMPStep ==
    /\ pc = "gmp_loop"
    /\ bits # <<>>
    /\ LET b   == Head(bits)
           upd == CassiniGMPUpdate(f_i, f_im1, next_offset, b)
       IN  IF overflow_checks /\ NextIndex(i, b) > U64Max
           THEN /\ pc' = "panic"
                /\ UNCHANGED <<bits, i, f_i, f_im1, next_offset>>
           ELSE /\ i' = WrapU64(NextIndex(i, b))
                /\ f_i' = upd[1]
                /\ f_im1' = upd[2]
                /\ next_offset' = upd[3]
                /\ bits' = Tail(bits)
                /\ pc' = pc
    /\ UNCHANGED <<binetLocals, otherLocals>>
    /\ UNCHANGED <<overflow_checks, alg, n, base, p, prod, ret, f_iplus1,
                   result>>

\* assert!(i == n); f_i
CassiniGMPExit ==
    /\ pc = "gmp_loop"
    /\ bits = <<>>
    /\ IF i = n
       THEN /\ result' = f_i
            /\ pc' = "done"
       ELSE /\ pc' = "panic"
            /\ UNCHANGED result
    /\ UNCHANGED <<binetLocals, otherLocals>>
    /\ UNCHANGED <<overflow_checks, alg, n, powerLocals, cassiniLocals>>

-----------------------------------------------------------------------------
(* Binet::fib, up to the choice of the working precision.  n is a full
   64-bit word here and prec a full 32-bit one: the constants of the
   precision formula do not scale with the word.  The big-float evaluation
   that follows the choice of prec happens inside the floating-point
   library; the model stops at its entry. *)

\* The f64 nearest to the literal 1.05.
F64_1_05 == [m |-> <<3277, 3276, 3276, 3276, 16>>, e |-> -52]

\* Float::with_val(10, 1.618): 1.618 at 10 bits of precision.
Float10_1_618 == [m |-> <<828>>, e |-> -9]

\* Float::with_val(10, 1.618).log2(): the base-2 logarithm of 828 * 2^-9,
\* correctly rounded to 10 bits.
Log2_1_618 == [m |-> <<710>>, e |-> -10]

\* n as f64
F64FromU64(x) == RoundNearestEven(x, 0, 53)

\* The product of two floating-point numbers at a precision of bitsOut bits.
FloatMul(x, y, bitsOut) ==
    RoundNearestEven(BigMul(x.m, y.m), x.e + y.e, bitsOut)

\* .ceil().to_integer().unwrap() of a finite non-negative number.
CeilToInteger(x) ==
    IF x.e >= 0 THEN BigShl(x.m, x.e)
    ELSE IF BigLowBitsZero(x.m, -x.e) THEN BigShr(x.m, -x.e)
    ELSE BigAdd(BigShr(x.m, -x.e), <<1>>)

BigMax(a, b) == IF BigLess(a, b) THEN b ELSE a

\* Whether a.to_u32() is Some.
FitsU32(a) == BigBitLen(a) <= 32

\* a modulo 2^32
WrapU32(a) ==
    LET high == BigShr(a, 32)
    IN  IF high = <<>> THEN a
        ELSE BigNorm([k \in 1 .. Len(a) |->
                         IF k <= 32 \div LimbBits THEN a[k]
                         ELSE IF k = 32 \div LimbBits + 1
                              THEN a[k] % Pow2(32 % LimbBits)
                         ELSE 0])

\* The Integer that to_u32 is called on.
BinetPrecInteger(m) ==
    BigMax(CeilToInteger(FloatMul(FloatMul(F64_1_05, F64FromU64(m), 53),
                                  Log2_1_618, 10)),
           BigFromNat(53))

\* The arguments Binet::fib is called with: the n of its unit test, the
\* powers of two, the two arguments on either side of the first precision
\* that 32 bits do not hold, 10^10 and u64::MAX; all of them u64.
BinetInputs ==
    LET tested == {BigFromNat(x) : x \in {0, 1, 2, 12, 37, 100, 1000, 10000, 100000}}
        powers == {BigShl(<<1>>, k) : k \in 0 .. MaxBinetLog}
        edge   == BigAdd(BigMul(BigFromNat(58965), BigFromNat(100000)),
                         BigFromNat(78172))
        others == {edge, BigAdd(edge, <<1>>),
                   BigMul(BigFromNat(100000), BigFromNat(100000)),
                   [k \in 1 .. 64 \div LimbBits + 1 |->
                       IF k <= 64 \div LimbBits THEN LimbBase - 1
                       ELSE Pow2(64 % LimbBits) - 1]}
    IN  {m \in tested \cup powers \cup others : BigBitLen(m) <= 64}

BinetCall(m) ==
    /\ pc = "idle"
    /\ alg' = "binet"
    /\ binet_n' = m
    /\ LET wide == BinetPrecInteger(m)
           sum  == BigAdd(wide, BigFromNat(10))
       IN  IF ~FitsU32(wide)
           THEN \* to_u32() is None and unwrap panics
                pc' = "panic" /\ UNCHANGED prec
           ELSE IF ~FitsU32(sum) /\ overflow_checks
           THEN pc' = "panic" /\ UNCHANGED prec
           ELSE pc' = "binet_eval" /\ prec' = WrapU32(sum)
    /\ UNCHANGED <<overflow_checks, n, powerLocals, cassiniLocals, result>>
    /\ UNCHANGED otherLocals

-----------------------------------------------------------------------------
(* power as a function of its arguments: the calls power(x, a + b, id),
   power(x, a, id) and power(x, b, id) side by side, and the combination of
   the last two under the carrier's multiplication. *)

\* A call that returned v, and a call that panicked.
Returned(v) == [ok |-> TRUE, v |-> v]

Panicked == [ok |-> FALSE, v |-> 0]

\* The loop of power from the characters bs on, with the locals p and prod.
RECURSIVE PowerLoop(_, _, _, _, _)
PowerLoop(t, bs, pp, pr, checks) ==
    IF bs = <<>> THEN Returned(pr)
    ELSE LET b == Head(bs)
             folded == IF b = 1 THEN MulAssign(t, pr, pp) ELSE pr
         IN  IF checks
                /\ (\/ b = 1 /\ MulOverflows(t, pr, pp)
                    \/ MulOverflows(t, pp, pp))
             THEN Panicked
             ELSE PowerLoop(t, Tail(bs), MulAssign(t, pp, pp), folded, checks)

\* power(b, e, ident) on carrier t, in a build that checks overflow or not.
Power(t, b, e, ident, checks) ==
    IF e = 0 THEN Returned(ident)
    ELSE PowerLoop(t, PowerBits(e), b, ident, checks)

\* l * r for the values two calls of power returned.
Combined(t, l, r, checks) ==
    IF ~l.ok \/ ~r.ok THEN Panicked
    ELSE IF checks /\ MulOverflows(t, l.v, r.v) THEN Panicked
    ELSE Returned(MulAssign(t, l.v, r.v))

\* The identity of carrier t.
IdentOfCarrier(t) ==
    CASE t = "u64"    -> 1
      [] t = "Mat2x2" -> Mat2x2Identity
      [] t = "Z5"     -> Z5One

\* The elements x the three calls are made on, by carrier.
LawElements(t) ==
    CASE t = "u64"    -> 0 .. MaxBase
      [] t = "Mat2x2" -> {fib_mat, [a |-> 2, b |-> 1, c |-> 0, d |-> -1]}
      [] t = "Z5"     -> {Z5New(1, 1)}

PowerLawCall(t, x, a, b) ==
    /\ pc = "idle"
    /\ alg' = "law"
    /\ LET id == IdentOfCarrier(t)
       IN  law' = [t     |-> t,
                   x     |-> x,
                   a     |-> a,
                   b     |-> b,
                   sum   |-> Power(t, x, a + b, id, overflow_checks),
                   left  |-> Power(t, x, a, id, overflow_checks),
                   right |-> Power(t, x, b, id, overflow_checks),
                   once  |-> Power(t, x, 1, id, overflow_checks)]
    /\ pc' = "done"
    /\ UNCHANGED <<overflow_checks, n, powerLocals, cassiniLocals, result>>
    /\ UNCHANGED <<binetLocals, results, gmpLocals>>

-----------------------------------------------------------------------------
(* memoized.rs: one MemoizedRecursor, called any number of times. *)

\* A variant of fib that files each new result under the key one too large.
MemoizedFibShiftedKey(cache, k) ==
    IF k \in DOMAIN cache
    THEN [results |-> cache, out |-> cache[k]]
    ELSE [results |-> ((k + 1) :> k) @@ cache, out |-> k]

\* self.fib(k) on a recursor whose results are cache: the results it leaves
\* and the value it returns.
RECURSIVE MemoizedFib(_, _)
MemoizedFib(cache, k) ==
    IF k \in DOMAIN cache
    THEN [results |-> cache, out |-> cache[k]]
    ELSE IF k < 2
    THEN [results |-> (k :> k) @@ cache, out |-> k]
    ELSE LET first  == MemoizedFib(cache, k - 1)
             second == MemoizedFib(first.results, k - 2)
             sum    == first.out + second.out
         IN  [results |-> (k :> sum) @@ second.results, out |-> sum]

\* The recursor exists from the start; a call is made when no other is under
\* way.
MemoizedReady == (alg = "none" /\ pc = "idle") \/ (alg = "memo" /\ pc = "done")

MemoizedFibCall(m) ==
    /\ MemoizedReady
    /\ alg' = "memo"
    /\ pc' = "done"
    /\ n' = m
    /\ LET r == MemoizedFib(results, m)
       IN  results' = r.results /\ result' = r.out
    /\ UNCHANGED <<overflow_checks, powerLocals, cassiniLocals, binetLocals,
                   law, gmpLocals>>

\* MemoizedRecursor::clear
MemoizedClear ==
    /\ MemoizedReady
    /\ alg' = "memo"
    /\ pc' = "done"
    /\ results' = <<>>
    /\ UNCHANGED <<overflow_checks, n, result, powerLocals, cassiniLocals,
                   binetLocals, law, gmpLocals>>

-----------------------------------------------------------------------------
(* gmp.rs: GMP::fib, n at its full width of 64 bits. *)

\* <<F(k), F(k+1)>> by the defining recurrence F(0)=0, F(1)=1.
RECURSIVE FibPair(_)
FibPair(k) ==
    IF k = 0 THEN <<0, 1>>
    ELSE LET q == FibPair(k - 1) IN <<q[2], q[1] + q[2]>>

\* F(k)
Fib(k) == FibPair(k)[1]

\* n as u32: the low 32 bits of n.
AsU32(a) == WrapU32(a)

\* Integer::fibonacci(index), the library's Fibonacci number of a u32 index.
IntegerFibonacci(index) == Fib(BigToNat(index))

\* The arguments GMP::fib is called with: the small n, and the n that are a
\* small number above 2^32 and above 2^33.
GMPInputs ==
    {BigAdd(high, BigFromNat(x)) :
        high \in {<<>>, BigShl(<<1>>, 32), BigShl(<<1>>, 33)},
        x \in 0 .. MaxGmpIndex}

GMPFibCall(m) ==
    /\ pc = "idle"
    /\ alg' = "gmplib"
    /\ gmp_n' = m
    /\ gmp_index' = AsU32(m)
    /\ result' = IntegerFibonacci(AsU32(m))
    /\ pc' = "done"
    /\ UNCHANGED <<overflow_checks, n, powerLocals, cassiniLocals, binetLocals,
                   law, results>>

-----------------------------------------------------------------------------

Next ==
    \/ \E b \in 0 .. MaxBase, e \in 0 .. MaxExp : IntPowCall(b, e)
    \/ \E m \in Inputs : MatFibCall(m)
    \/ \E m \in Inputs : Z5FibCall(m)
    \/ \E m \in Inputs : Z5PowCall(m)
    \/ \E m \in Inputs : CassiniCall(m)
    \/ \E m \in Inputs : CassiniGMPCall(m)
    \/ \E m \in BinetInputs : BinetCall(m)
    \/ \E t \in {"u64", "Mat2x2", "Z5"} :
          \E x \in LawElements(t), a \in 0 .. MaxLawExp, b \in 0 .. MaxLawExp :
             PowerLawCall(t, x, a, b)
    \/ \E m \in Inputs : MemoizedFibCall(m)
    \/ MemoizedClear
    \/ \E m \in GMPInputs : GMPFibCall(m)
    \/ PowerStep
    \/ PowerReturn
    \/ IntPowDone
    \/ MatFibDone
    \/ Z5FibDone
    \/ Z5PowDone
    \/ CassiniStep
    \/ CassiniExit
    \/ CassiniGMPStep
    \/ CassiniGMPExit

Spec == Init /\ [][Next]_vars

-----------------------------------------------------------------------------
(* The reference the claims are stated against. *)

\* The identity handed to power, by entry point.
IdentOf(g) ==
    CASE g = "int"   -> 1
      [] g = "mat"   -> Mat2x2Identity
      [] g = "z5"    -> Z5One
      [] g = "z5pow" -> Z5One

\* <<ident, ident*b, ident*b*b, ...>> up to e factors b, one multiplication
\* of the carrier at a time.
RECURSIVE RepeatedProducts(_, _, _, _)
RepeatedProducts(t, b, e, ident) ==
    IF e = 0 THEN <<ident>>
    ELSE LET s == RepeatedProducts(t, b, e - 1, ident)
         IN  Append(s, MulAssign(t, s[Len(s)], b))

\* ident combined with b, e times.
RepeatedProduct(t, b, e, ident) == RepeatedProducts(t, b, e, ident)[e + 1]

\* b^e over the integers.
RECURSIVE IntPow(_, _)
IntPow(b, e) == IF e = 0 THEN 1 ELSE b * IntPow(b, e - 1)

\* The value of the binary digits bs, most significant first.
RECURSIVE BinaryValue(_)
BinaryValue(bs) ==
    IF bs = <<>> THEN 0
    ELSE 2 * BinaryValue(SubSeq(bs, 1, Len(bs) - 1)) + bs[Len(bs)]

\* The digits of a walk over m that have been consumed when rest remain.
Consumed(m, rest) ==
    SubSeq(FormatBinary(m), 1, Len(FormatBinary(m)) - Len(rest))

InPower == alg \in {"int", "mat", "z5", "z5pow"}

-----------------------------------------------------------------------------
(* Claims *)

\* What holds of the calls of power that return: the value returned is ident
\* combined with base exp times under the carrier's multiplication (ident
\* itself for exp = 0, ident * base for exp = 1), which on the u64 carrier
\* with ident = 1 is base.pow(exp) whenever that fits the word; and on the
\* carriers of big integers (Mat2x2, Z5) no call of power panics.
PowerReturnsRepeatedProduct ==
    /\ (InPower /\ pc = "power_ret") =>
          /\ ret = RepeatedProduct(Carrier(alg), base, n, IdentOf(alg))
          /\ n = 0 => ret = IdentOf(alg)
          /\ n = 1 => ret = MulAssign(Carrier(alg), IdentOf(alg), base)
          /\ (alg = "int" /\ IntPow(base, n) <= U64Max) => ret = IntPow(base, n)
    /\ (InPower /\ Carrier(alg) # "u64") => pc # "panic"

\* C1 as the spec states it, on the integer carrier: for every exp >= 0,
\* power(base, exp, 1) returns base.pow(exp), the reference that is defined
\* whenever base^exp fits the word.
C1_PowerEqualsPow ==
    (alg = "int" /\ IntPow(base, n) <= U64Max) =>
        /\ pc # "panic"
        /\ pc = "power_ret" => ret = IntPow(base, n)

\* C1 failing call: in a build that checks overflow, power(2, 3, 1) on the
\* word of 4 bits stands at its last character with prod = 2 and p = 4 and
\* has panicked: prod * p = 2^3 fits the word, the squaring of p that follows
\* the last character does not.
C1_FailingCall ==
    /\ alg = "int" /\ pc = "panic" /\ overflow_checks
    /\ base = 2 /\ n = 3 /\ IntPow(base, n) <= U64Max
    /\ bits = <<1>> /\ p = 4 /\ prod = 2
    /\ ~MulOverflows("u64", prod, p) /\ MulOverflows("u64", p, p)

\* C2: MatExponentiator::fib(n) returns F(n) for every n >= 0, n = 0 and
\* n = 1 included, always as the first component of
\* power(fib_mat, n, identity) * (0, 1).
C2_MatFibIsFib ==
    (alg = "mat" /\ pc = "done") =>
        /\ result = Fib(n)
        /\ ret = RepeatedProduct("Mat2x2", fib_mat, n, Mat2x2Identity)
        /\ result = ret.a * 0 + ret.b * 1

\* C2 witness: fib(12) returned 144 through the matrix path.
C2_Witness == alg = "mat" /\ pc = "done" /\ n = 12 /\ result = 144

\* C3: BinetZ5::fib(n) returns F(n) for every n >= 0: n itself, without a
\* call of power, for n in {0, 1}; for n >= 2 the component b of
\* power(Z5(1,1), n, Z5(2,0)), unchanged.
C3_BinetZ5FibIsFib ==
    (alg = "z5" /\ pc = "done") =>
        /\ result = Fib(n)
        /\ n < 2 => (result = n /\ base = 0 /\ ret = 0)
        /\ n >= 2 =>
              /\ ret = RepeatedProduct("Z5", Z5New(1, 1), n, Z5One)
              /\ result = ret.b

\* C3 witness: fib(12) returned 144 as the b of the Z5 power.
C3_Witness ==
    /\ alg = "z5" /\ pc = "done" /\ n = 12 /\ result = 144
    /\ ret = [a |-> 322, b |-> 144]

\* C4: in Cassini::fib(n), n >= 2, the pair (f_i, f_iplus1) is
\* (F(i), F(i+1)) before the first and after every consumed bit, each
\* iteration doubles i on a 0 and doubles it plus one on a 1, and the value
\* returned is F(n); for n < 2 the value returned is n.
C4_CassiniPair ==
    /\ [](alg = "cassini" =>
            /\ pc = "cassini_loop" =>
                  (n >= 2 /\ f_i = Fib(i) /\ f_iplus1 = Fib(i + 1))
            /\ pc = "done" => result = Fib(n)
            /\ (pc = "done" /\ n < 2) => result = n)
    /\ [][(pc = "cassini_loop" /\ bits # <<>>) =>
            /\ pc' = "cassini_loop"
            /\ i' = 2 * i + Head(bits)
            /\ Head(bits) = 0 => (f_i' = Fib(2 * i) /\ f_iplus1' = Fib(2 * i + 1))
            /\ Head(bits) = 1 =>
                  (f_i' = Fib(2 * i + 1) /\ f_iplus1' = Fib(2 * i + 2))]_vars

\* C4 witness: the walk of fib(13) has consumed 1, 1, 0 and holds (F(6), F(7)).
C4_Witness ==
    /\ alg = "cassini" /\ pc = "cassini_loop" /\ n = 13
    /\ i = 6 /\ f_i = 8 /\ f_iplus1 = 13 /\ bits = <<1>>

\* C5: in CassiniGMP::fib(n), n >= 2, at the start of every iteration and at
\* the exit of the loop (f_i, f_im1, next_offset) is
\* (F(i), F(i-1), 2*(-1)^i), and the value returned is F(n); for n < 2 the
\* value returned is n.
C5_CassiniGMPState ==
    alg = "gmp" =>
        /\ pc = "gmp_loop" =>
              /\ n >= 2 /\ i >= 1
              /\ f_i = Fib(i)
              /\ f_im1 = Fib(i - 1)
              /\ next_offset = IF i % 2 = 0 THEN 2 ELSE -2
        /\ pc = "done" => result = Fib(n)
        /\ (pc = "done" /\ n < 2) => result = n

\* C5 witness: the walk of fib(9) has consumed 1, 0, 0 and holds
\* (F(4), F(3), +2).
C5_Witness ==
    /\ alg = "gmp" /\ pc = "gmp_loop" /\ n = 9
    /\ i = 4 /\ f_i = 3 /\ f_im1 = 2 /\ next_offset = 2 /\ bits = <<1>>

\* C6: in Cassini::fib(n) and CassiniGMP::fib(n), 2 <= n <= u64::MAX, the
\* index i is at every moment of the walk the number the consumed bits of n
\* spell, no update of i overflows the word, the walk ends with i = n and
\* assert!(i == n) never fails.
C6_IndexFollowsBits ==
    alg \in {"cassini", "gmp"} =>
        /\ pc # "panic"
        /\ pc \in {"cassini_loop", "gmp_loop"} =>
              /\ i = BinaryValue(Consumed(n, bits))
              /\ bits # <<>> => NextIndex(i, Head(bits)) <= U64Max
              /\ bits = <<>> => i = n

\* C6 witness: the walk over the largest n of the word, u64::MAX, has consumed
\* every bit and stands before the assertion with i = n.
C6_Witness ==
    /\ alg \in {"cassini", "gmp"} /\ pc \in {"cassini_loop", "gmp_loop"}
    /\ n = U64Max /\ bits = <<>> /\ i = n

\* C8 as the spec states it: for every n of the u64 range Binet::fib(n)
\* never aborts, the precision it computes from n fitting 32 bits, so that
\* neither to_u32().unwrap() nor the addition of 10 fails.
C8_BinetNeverAborts == alg = "binet" => pc # "panic"

\* C8 failing call: Binet::fib(10^10) has panicked, the precision of its n
\* (7281311744 before the clamp) not fitting 32 bits.
C8_FailingCall ==
    /\ alg = "binet" /\ pc = "panic"
    /\ binet_n = BigMul(BigFromNat(100000), BigFromNat(100000))
    /\ BinetPrecInteger(binet_n)
          = BigAdd(BigMul(BigFromNat(72813), BigFromNat(100000)),
                   BigFromNat(11744))
    /\ ~FitsU32(BinetPrecInteger(binet_n))

\* C9: power(fib_mat, n, identity) is (F(n+1), F(n), F(n), F(n-1)) for every
\* n >= 1, and the identity (1, 0, 0, 1) for n = 0.
C9_MatrixPower ==
    (alg = "mat" /\ pc = "power_ret") =>
        ret = IF n = 0
              THEN [a |-> 1, b |-> 0, c |-> 0, d |-> 1]
              ELSE [a |-> Fib(n + 1), b |-> Fib(n), c |-> Fib(n),
                    d |-> Fib(n - 1)]

\* C9 witness: the 10th power of fib_mat is (89, 55, 55, 34).
C9_Witness ==
    /\ alg = "mat" /\ pc = "power_ret" /\ n = 10
    /\ ret = [a |-> 89, b |-> 55, c |-> 55, d |-> 34]

\* C10 as the spec states it: the b of power(Z5(1,1), n, Z5(2,0)) is 2*F(n)
\* for every n >= 1.
C10_Original_BIsTwiceFib ==
    (alg = "z5pow" /\ pc = "power_ret" /\ n >= 1) => ret.b = 2 * Fib(n)

\* C10 as amended: the b of power(Z5(1,1), n, Z5(2,0)) is F(n) for every
\* n >= 1.
C10_BIsFib ==
    (alg = "z5pow" /\ pc = "power_ret" /\ n >= 1) => ret.b = Fib(n)

\* C10 witness: the 10th power of Z5(1,1) is (123, 55), and F(10) = 55.
C10_Witness ==
    /\ alg = "z5pow" /\ pc = "power_ret" /\ n = 10
    /\ ret = [a |-> 123, b |-> 55]

\* Whether two calls ended alike: both panicked, or both returned the same
\* value.
SameOutcome(l, r) == l.ok = r.ok /\ (l.ok => l.v = r.v)

\* What holds of the three calls: on the carriers of big integers, and on
\* u64 in a build that does not check overflow (where products wrap), all
\* calls return, power(x, a + b, id) is power(x, a, id) combined with
\* power(x, b, id), and power(x, 1, id) is id combined with x.
PowerLawWhereNoPanic ==
    (alg = "law" /\ (law.t # "u64" \/ ~overflow_checks)) =>
        /\ law.sum.ok /\ law.left.ok /\ law.right.ok /\ law.once.ok
        /\ law.sum.v = MulAssign(law.t, law.left.v, law.right.v)
        /\ law.once.v = MulAssign(law.t, IdentOfCarrier(law.t), law.x)

\* C11 as the spec states it: for all a, b >= 0, power(x, a + b, id) equals
\* power(x, a, id) combined with power(x, b, id), for x an integer, a 2x2
\* integer matrix or the Z5 element (1, 1); and power(x, 1, id) equals id
\* combined with x once.
C11_PowerOfSum ==
    alg = "law" =>
        /\ SameOutcome(law.sum,
                       Combined(law.t, law.left, law.right, overflow_checks))
        /\ SameOutcome(law.once,
                       Combined(law.t, Returned(IdentOfCarrier(law.t)),
                                Returned(law.x), overflow_checks))

\* C11 failing calls: in a build that checks overflow, on the word of U64Bits
\* bits, power(2, 1, 1) * power(2, 1, 1) is 4 and fits the word, and
\* power(2, 2, 1) has panicked in the squaring of p after its last character.
C11_FailingCalls ==
    /\ alg = "law" /\ overflow_checks
    /\ law.t = "u64" /\ law.x = 2 /\ law.a = 1 /\ law.b = 1
    /\ law.left = Returned(2) /\ law.right = Returned(2)
    /\ Combined("u64", law.left, law.right, TRUE) = Returned(4)
    /\ ~law.sum.ok

C13_GMPIndexIsN ==
    (alg = "gmplib" /\ pc = "done") =>
        /\ gmp_index = gmp_n
        /\ result = IntegerFibonacci(gmp_index)
        /\ result = 0 => gmp_n = <<>>

\* C13 failing call: GMP::fib(2^32 + 12) has handed the index 12 to the
\* library and has returned F(12) = 144.
C13_FailingCall ==
    /\ alg = "gmplib" /\ pc = "done"
    /\ gmp_n = BigAdd(BigShl(<<1>>, 32), BigFromNat(12))
    /\ gmp_index = BigFromNat(12)
    /\ result = 144

\* What holds of GMP::fib: the index is n modulo 2^32, so that the value
\* returned is F(n) for every n < 2^32 and F(n mod 2^32) beyond.
GMPIndexIsLow32Bits ==
    (alg = "gmplib" /\ pc = "done") =>
        /\ FitsU32(gmp_index)
        /\ gmp_n = BigAdd(BigShl(BigShr(gmp_n, 32), 32), gmp_index)
        /\ result = Fib(BigToNat(gmp_index))
        /\ FitsU32(gmp_n) => result = Fib(BigToNat(gmp_n))

\* The number of characters of exp the loop of power has examined.
Examined == Len(FormatBinary(n)) - Len(bits)

\* What one iteration of the loop of power does to p and prod, when it
\* completes: prod takes in the p of before the squaring if the character is
\* 1, and p is squared whatever the character.
FoldsThenSquares ==
    LET t == Carrier(alg)
    IN  pc' = "power_loop" =>
           /\ prod' = IF Head(bits) = 1 THEN MulAssign(t, prod, p) ELSE prod
           /\ p' = MulAssign(t, p, p)
           /\ bits' = Tail(bits)

\* The loop of power starts from p = base and prod = ident.
StartsFromBaseAndIdent ==
    (InPower /\ pc = "power_loop" /\ Examined = 0) =>
        (p = base /\ prod = IdentOf(alg))

\* C14 as the spec states it: for exp >= 1, power examines the binary digits
\* of exp from the most significant to the least significant, starting from
\* p = base and prod = ident, and for each digit folds the pre-square p into
\* prod when the digit is 1 and then squares p.
C14_Original_MsbFirst ==
    /\ []StartsFromBaseAndIdent
    /\ [][(InPower /\ pc = "power_loop" /\ bits # <<>>) =>
            /\ Head(bits) = FormatBinary(n)[Examined + 1]
            /\ FoldsThenSquares]_vars

\* C14 as amended: for exp >= 1, power examines the binary digits of exp from
\* the least significant to the most significant, starting from p = base and
\* prod = ident, and for each digit folds the pre-square p into prod when the
\* digit is 1 and then squares p.
C14_LsbFirst ==
    /\ []StartsFromBaseAndIdent
    /\ [][(InPower /\ pc = "power_loop" /\ bits # <<>>) =>
            /\ Head(bits) = (n \div Pow2(Examined)) % 2
            /\ FoldsThenSquares]_vars

\* C14 witness: power(fib_mat, 6, identity) has examined the last digit of
\* 110, a 0: p is squared, prod is still the identity, and the digits 1, 1
\* remain.
C14_Witness ==
    /\ alg = "mat" /\ pc = "power_loop" /\ n = 6
    /\ bits = <<1, 1>> /\ Examined = 1
    /\ prod = Mat2x2Identity
    /\ p = [a |-> 2, b |-> 1, c |-> 1, d |-> 1]

\* An iteration of the loop of CassiniGMP::fib that completes.
CassiniGMPIteration ==
    alg = "gmp" /\ pc = "gmp_loop" /\ bits # <<>> /\ pc' = "gmp_loop"

\* C15 as the spec states it: in CassiniGMP::fib, next_offset changes sign,
\* between -2 and +2, on every iteration of the loop, for every n >= 2.
C15_Original_FlipsEveryIteration ==
    [][CassiniGMPIteration =>
          (next_offset' \in {-2, 2} /\ next_offset' = -next_offset)]_vars

\* C15 as amended: in CassiniGMP::fib, every iteration sets next_offset from
\* the bit it consumes, +2 after a 0 and -2 after a 1 (2*(-1)^i for the new
\* index i), so that next_offset changes sign exactly on the iterations that
\* change the parity of i, for every n >= 2.
C15_OffsetFollowsBit ==
    [][CassiniGMPIteration =>
          /\ next_offset \in {-2, 2}
          /\ next_offset' = IF Head(bits) = 0 THEN 2 ELSE -2
          /\ next_offset' = IF i' % 2 = 0 THEN 2 ELSE -2
          /\ next_offset' = -next_offset <=> i' % 2 # i % 2]_vars

\* C15 witness: the one iteration of CassiniGMP::fib(3) has consumed a 1 and
\* has left next_offset at -2, the value it started from.
C15_Witness ==
    /\ alg = "gmp" /\ pc = "gmp_loop" /\ n = 3 /\ bits = <<>>
    /\ i = 3 /\ f_i = 2 /\ f_im1 = 1 /\ next_offset = -2

\* Whether the components of a Z5 have the same parity.
SameParity(z) == z.a % 2 = z.b % 2

\* Whether both shifts of the product self * rhs discard a 0 bit.
HalvingExact(self, rhs) ==
    LET unshifted == Z5Unshifted(self, rhs)
    IN  /\ unshifted.a % 2 = 0 /\ unshifted.b % 2 = 0
        /\ 2 * Z5MulAssign(self, rhs).a = unshifted.a
        /\ 2 * Z5MulAssign(self, rhs).b = unshifted.b

\* C16: during power(Z5(1,1), n, Z5(2,0)), n >= 1, every Z5 held in p and
\* prod has components a and b of equal parity, and in every multiplication
\* (the fold of p into prod on a 1, the squaring of p on every character)
\* k1 - k2 and k1 + k3 are even, so that each shift by one is an exact
\* halving.
C16_Z5HalvingExact ==
    (alg \in {"z5", "z5pow"} /\ n >= 1) =>
        /\ pc = "power_loop" =>
              /\ SameParity(p) /\ SameParity(prod)
              /\ bits # <<>> =>
                    /\ HalvingExact(p, p)
                    /\ Head(bits) = 1 => HalvingExact(prod, p)
        /\ pc = "power_ret" =>
              (SameParity(p) /\ SameParity(prod) /\ SameParity(ret))

\* C16 witness: power(Z5(1,1), 10, Z5(2,0)) has examined two characters and
\* holds p = (7, 3) and prod = (3, 1); the squaring to come computes
\* (94, 42) before its shifts.
C16_Witness ==
    /\ alg = "z5pow" /\ pc = "power_loop" /\ n = 10 /\ bits = <<0, 1>>
    /\ p = [a |-> 7, b |-> 3] /\ prod = [a |-> 3, b |-> 1]
    /\ Z5Unshifted(p, p) = [a |-> 94, b |-> 42]

\* C17 as the spec states it: on the u64 carrier with ident = 1, whenever
\* base^exp fits the word, no value power(base, exp, 1) computes exceeds the
\* largest word, neither a prod nor a square of p, the square after the last
\* character included, and the call returns base^exp without overflow.
C17_NoIntermediateOverflow ==
    (alg = "int" /\ IntPow(base, n) <= U64Max) =>
        /\ pc # "panic"
        /\ (pc = "power_loop" /\ bits # <<>>) =>
              /\ U64Product(p, p) <= U64Max
              /\ Head(bits) = 1 => U64Product(prod, p) <= U64Max
        /\ pc = "power_ret" => ret = IntPow(base, n)

\* C17 failing call: in a build that does not check overflow, power(2, 3, 1)
\* on the word of 4 bits has returned 2^3 = 8, and the p it leaves is 0: the
\* square 4 * 4 after the last character did not fit the word and wrapped.
C17_FailingCall ==
    /\ alg = "int" /\ pc = "power_ret" /\ ~overflow_checks
    /\ base = 2 /\ n = 3 /\ ret = 8 /\ IntPow(base, n) <= U64Max
    /\ prod = 8 /\ p = WrapU64(U64Product(4, 4)) /\ p = 0

=============================================================================
